---- MODULE Spec2Model ----
(***************************************************************************)
(* Model of the sentence-splitter audio pipeline: sliceAudioBuffer,        *)
(* floatTo16BitPCM, audioBufferToMp3 and audioBufferToWav of the audio     *)
(* utilities, and the App component's handleFileSelect, handleReset and    *)
(* handleDownloadAll handlers.                                             *)
(*                                                                         *)
(* Numbers.  A sample is an integer n standing for the float n/SampleDen,  *)
(* a time is an integer t standing for t/TimeDen seconds.  Both            *)
(* denominators are powers of two and the sample rates are integers, so    *)
(* every product the code forms is exact in IEEE double arithmetic and     *)
(* the integer arithmetic below computes what the code computes.           *)
(***************************************************************************)
EXTENDS Integers, Sequences, FiniteSets, TLC

VARIABLES
    enc,                \* audioBufferToWav harness: the encoder's locals
    sl,                 \* sliceAudioBuffer harness: arguments and result
    mp,                 \* audioBufferToMp3 harness: the function's locals
    status,             \* App: useState status
    processedSegments,  \* App: useState processedSegments
    errorMsg,           \* App: useState errorMsg
    originalFile,       \* App: useState originalFile
    isZipping,          \* App: useState isZipping
    zipType,            \* App: useState zipType
    audioBufferRef,     \* App: useRef audioBufferRef.current
    audioContextRef,    \* App: useRef audioContextRef.current
    fs,                 \* handleFileSelect: position and locals of the run
    batch,              \* handleDownloadAll: position, closure and locals
    effects             \* the window.alert calls and a.click() downloads
                        \* made by the last step

vars == <<enc, sl, mp, status, processedSegments, errorMsg, originalFile, isZipping,
          zipType, audioBufferRef, audioContextRef, fs, batch, effects>>

appVars == <<status, processedSegments, errorMsg, originalFile, isZipping,
             zipType, audioBufferRef, audioContextRef, fs, batch, effects>>

NULL == "null"
Undefined == "undefined"
\* a reference that may be null (a File, an AudioBuffer): <<>> or <<value>>
Null == <<>>
Ref(v) == <<v>>

(***************************************************************************)
(* Bounds of the model.                                                    *)
(***************************************************************************)
MaxChannels == 2
MaxWavFrames == 46
MaxSliceFrames == 3
MaxSliceTime == 20
MaxSegments == 2
MaxBlocks == 2

(***************************************************************************)
(* Number representation.                                                  *)
(***************************************************************************)
SampleDen == 8
TimeDen == 4

Max(a, b) == IF a >= b THEN a ELSE b
Min(a, b) == IF a <= b THEN a ELSE b

\* Math.floor(a/b) and Math.ceil(a/b) for b > 0
Floor(a, b) == a \div b
Ceil(a, b) == -((-a) \div b)
\* truncation toward zero of a/b for b > 0: what (x | 0) and the typed-array
\* integer conversions keep of a number inside the 32-bit range
Trunc(a, b) == IF a >= 0 THEN a \div b ELSE -((-a) \div b)

(***************************************************************************)
(* AudioBuffer values.                                                     *)
(***************************************************************************)
SampleCycle == <<8, -1, -4, 3, -16, 0, -3, 12, -8, 1, -5, 4, -2, 16, -7>>

\* a buffer of C channels, N frames, rate R whose samples walk SampleCycle
MkBuffer(C, N, R, seed) ==
    [numberOfChannels |-> C, length |-> N, sampleRate |-> R,
     channels |-> [c \in 1..C |-> [k \in 1..N |->
                     SampleCycle[((k + 4 * c + seed) % Len(SampleCycle)) + 1]]]]

\* BaseAudioContext.createBuffer: a new buffer of silence
createBuffer(C, N, R) ==
    [numberOfChannels |-> C, length |-> N, sampleRate |-> R,
     channels |-> [c \in 1..C |-> [k \in 1..N |-> 0]]]

(***************************************************************************)
(* sliceAudioBuffer                                                        *)
(***************************************************************************)
\* const startOffset = Math.max(0, Math.floor(startSeconds * rate));
sliceStartOffset(buffer, startSeconds) ==
    Max(0, Floor(startSeconds * buffer.sampleRate, TimeDen))

\* const endOffset = Math.min(buffer.length, Math.ceil(endSeconds * rate));
\* (sliceEndOffsetFloor: the same with Math.floor, a faulty variant)
sliceEndOffsetFloor(buffer, endSeconds) ==
    Min(buffer.length, Floor(endSeconds * buffer.sampleRate, TimeDen))
sliceEndOffset(buffer, endSeconds) ==
    Min(buffer.length, Ceil(endSeconds * buffer.sampleRate, TimeDen))

\* the copy loops: newData[i] = oldData[i + startOffset]
\* (sliceCopyNoOffset: newData[i] = oldData[i], a faulty variant)
sliceCopyNoOffset(buffer, startOffset, frameCount) ==
    [createBuffer(buffer.numberOfChannels, frameCount, buffer.sampleRate)
        EXCEPT !.channels = [c \in 1..buffer.numberOfChannels |->
                               [i \in 1..frameCount |-> buffer.channels[c][i]]]]
sliceCopy(buffer, startOffset, frameCount) ==
    [createBuffer(buffer.numberOfChannels, frameCount, buffer.sampleRate)
        EXCEPT !.channels = [c \in 1..buffer.numberOfChannels |->
                               [i \in 1..frameCount |->
                                  buffer.channels[c][i + startOffset]]]]

\* if (frameCount <= 0) return context.createBuffer(numberOfChannels, 1, rate)
\* (sliceDegenerateEmpty: a buffer of no frame; sliceDegenerateCopy: the
\* source's first frame instead of silence; both faulty variants)
sliceDegenerateEmpty(buffer) ==
    createBuffer(buffer.numberOfChannels, 0, buffer.sampleRate)
sliceDegenerateCopy(buffer) ==
    [createBuffer(buffer.numberOfChannels, 1, buffer.sampleRate)
        EXCEPT !.channels = [c \in 1..buffer.numberOfChannels |->
                               [i \in 1..1 |-> IF buffer.length >= 1
                                               THEN buffer.channels[c][1] ELSE 0]]]
sliceDegenerate(buffer) ==
    createBuffer(buffer.numberOfChannels, 1, buffer.sampleRate)

sliceAudioBuffer(buffer, startSeconds, endSeconds) ==
    LET startOffset == sliceStartOffset(buffer, startSeconds)
        endOffset == sliceEndOffset(buffer, endSeconds)
        frameCount == endOffset - startOffset
    IN  IF frameCount <= 0
        THEN sliceDegenerate(buffer)
        ELSE sliceCopy(buffer, startOffset, frameCount)

(***************************************************************************)
(* audioBufferToWav.  The encoder's locals are the record e: buffer,       *)
(* numOfChan, length, view (the bytes of bufferArr, byte k at view[k+1]),  *)
(* channels, sample, offset, pos, i (the inner loop's index) and pc.       *)
(***************************************************************************)
HeaderBytes == 44

Byte(data, k) ==
    IF k = 0 THEN data % 256
    ELSE IF k = 1 THEN (data \div 256) % 256
    ELSE IF k = 2 THEN (data \div 65536) % 256
    ELSE (data \div 16777216) % 256

\* DataView.setUint16(byteOffset, data, true)
viewSetUint16(view, byteOffset, data) ==
    [view EXCEPT ![byteOffset + 1] = Byte(data % 65536, 0),
                 ![byteOffset + 2] = Byte(data % 65536, 1)]

\* DataView.setUint32(byteOffset, data, true); every value written is in
\* 0 .. 2^31 - 1, where the conversion to an unsigned 32-bit integer
\* changes nothing
viewSetUint32(view, byteOffset, data) ==
    [view EXCEPT ![byteOffset + 1] = Byte(data, 0),
                 ![byteOffset + 2] = Byte(data, 1),
                 ![byteOffset + 3] = Byte(data, 2),
                 ![byteOffset + 4] = Byte(data, 3)]

\* DataView.setInt16(byteOffset, value, true): two's complement, low byte first
viewSetInt16(view, byteOffset, value) ==
    viewSetUint16(view, byteOffset, value % 65536)

\* function setUint16(data) { view.setUint16(pos, data, true); pos += 2; }
setUint16(e, data) ==
    [e EXCEPT !.view = viewSetUint16(e.view, e.pos, data), !.pos = e.pos + 2]

\* function setUint32(data) { view.setUint32(pos, data, true); pos += 4; }
setUint32(e, data) ==
    [e EXCEPT !.view = viewSetUint32(e.view, e.pos, data), !.pos = e.pos + 4]

\* sample = Math.max(-1, Math.min(1, channels[i][pos]));
WavClamp(s) == Max(-SampleDen, Min(SampleDen, s))

\* sample = (0.5 + sample < 0 ? sample * 32768 : sample * 32767) | 0;
\* 0.5 + sample < 0 is (0.5 + n/SampleDen) < 0, that is SampleDen + 2n < 0
WavScale(s) ==
    IF SampleDen + 2 * s < 0
    THEN Trunc(s * 32768, SampleDen)
    ELSE Trunc(s * 32767, SampleDen)

WavQuantize(s) == WavScale(WavClamp(s))

\* the declarations at the top of the function
WavStart(buffer) ==
    LET length == buffer.length * buffer.numberOfChannels * 2 + HeaderBytes
    IN  [buffer |-> buffer,
         numOfChan |-> buffer.numberOfChannels,
         length |-> length,
         view |-> [k \in 1..length |-> 0],
         channels |-> <<>>,
         sample |-> Undefined,
         offset |-> 0,
         pos |-> 0,
         i |-> 0,
         pc |-> "header"]

\* "Write WAV Header" and "Interleave channels": the thirteen set calls and
\* the loop that fills channels
\* (WavHeaderByteRateNoWidth: the byte rate without the sample width, a
\* faulty variant)
WavHeaderByteRateNoWidth(e) ==
    LET e1 == setUint32(e, 1179011410)
        e2 == setUint32(e1, e.length - 8)
        e3 == setUint32(e2, 1163280727)
        e4 == setUint32(e3, 544501094)
        e5 == setUint32(e4, 16)
        e6 == setUint16(e5, 1)
        e7 == setUint16(e6, e.numOfChan)
        e8 == setUint32(e7, e.buffer.sampleRate)
        e9 == setUint32(e8, e.buffer.sampleRate * e.numOfChan)
        e10 == setUint16(e9, e.numOfChan * 2)
        e11 == setUint16(e10, 16)
        e12 == setUint32(e11, 1635017060)
        e13 == setUint32(e12, e.length - e12.pos - 4)
    IN  [e13 EXCEPT !.channels = e.buffer.channels, !.pc = "while"]
WavHeader(e) ==
    LET e1 == setUint32(e, 1179011410)               \* "RIFF"
        e2 == setUint32(e1, e.length - 8)
        e3 == setUint32(e2, 1163280727)              \* "WAVE"
        e4 == setUint32(e3, 544501094)               \* "fmt "
        e5 == setUint32(e4, 16)
        e6 == setUint16(e5, 1)
        e7 == setUint16(e6, e.numOfChan)
        e8 == setUint32(e7, e.buffer.sampleRate)
        e9 == setUint32(e8, e.buffer.sampleRate * 2 * e.numOfChan)
        e10 == setUint16(e9, e.numOfChan * 2)
        e11 == setUint16(e10, 16)
        e12 == setUint32(e11, 1635017060)            \* "data"
        e13 == setUint32(e12, e.length - e12.pos - 4)
    IN  [e13 EXCEPT !.channels = e.buffer.channels, !.pc = "while"]

\* while (pos < buffer.length)
WavWhile(e) ==
    IF e.pos < e.buffer.length
    THEN [e EXCEPT !.i = 0, !.pc = "for"]
    ELSE [e EXCEPT !.pc = "done"]

\* one pass of for (let i = 0; i < numOfChan; i++) { ... }, or its exit
\* followed by pos++
WavFor(e) ==
    IF e.i < e.numOfChan
    THEN LET sample == WavQuantize(e.channels[e.i + 1][e.pos + 1])
         IN  [e EXCEPT !.sample = sample,
                       !.view = viewSetInt16(e.view, 44 + e.offset, sample),
                       !.offset = e.offset + 2,
                       !.i = e.i + 1]
    ELSE [e EXCEPT !.pos = e.pos + 1, !.pc = "while"]

WavStep(e) ==
    IF e.pc = "header" THEN WavHeader(e)
    ELSE IF e.pc = "while" THEN WavWhile(e)
    ELSE WavFor(e)

RECURSIVE WavRun(_)
WavRun(e) == IF e.pc = "done" THEN e ELSE WavRun(WavStep(e))

\* return new Blob([bufferArr], { type: 'audio/wav' })
audioBufferToWav(buffer) ==
    [type |-> "audio/wav", bytes |-> WavRun(WavStart(buffer)).view]

(***************************************************************************)
(* Inputs of the two function harnesses.                                   *)
(***************************************************************************)
WavRates == {8000, 44100}
ExampleBuffer == MkBuffer(2, 100, 44100, 0)
WavBuffers ==
    {MkBuffer(C, N, R, seed) : C \in 1..MaxChannels, N \in 0..MaxWavFrames,
                               R \in WavRates, seed \in 0..1}
    \cup {ExampleBuffer}

SliceRates == {1, 3}
SliceBuffers ==
    {MkBuffer(C, N, R, 0) : C \in 1..MaxChannels, N \in 1..MaxSliceFrames,
                            R \in SliceRates}
SliceTimes == (-2)..MaxSliceTime

NoEnc == [pc |-> "idle"]
NoSlice == [pc |-> "idle"]
NoMp3 == [pc |-> "idle"]

(***************************************************************************)
(* floatTo16BitPCM and audioBufferToMp3.  The lamejs encoder is outside    *)
(* the repository: lame says how it behaves during one call of             *)
(* audioBufferToMp3 (whether Mp3Encoder is found, which encodeBuffer call, *)
(* if any, throws, and which returns an empty chunk); the chunk it returns *)
(* for a block is otherwise modelled by the block it was given.  The       *)
(* function's locals are the record e.                                     *)
(***************************************************************************)
SampleBlockSize == 1152

\* storing a number into an Int16Array: the integer part, modulo 2^16
ToInt16(n) == LET u == n % 65536 IN IF u >= 32768 THEN u - 65536 ELSE u

\* const s = Math.max(-1, Math.min(1, input[i]));
\* output[i] = s < 0 ? s * 0x8000 : s * 0x7FFF;
pcmSample(x) ==
    LET s == Max(-SampleDen, Min(SampleDen, x))
    IN  IF s < 0 THEN ToInt16(Trunc(s * 32768, SampleDen))
        ELSE ToInt16(Trunc(s * 32767, SampleDen))

floatTo16BitPCM(input) == [i \in 1..Len(input) |-> pcmSample(input[i])]

\* TypedArray.subarray(begin, end) on 0-based indices, end clamped
subarray(a, begin, end) ==
    [k \in 1..(Min(end, Len(a)) - Min(begin, Len(a))) |-> a[begin + k]]

\* mp3encoder.encodeBuffer(leftChunk[, rightChunk]) and mp3encoder.flush()
lameEncodeBuffer(channels, leftChunk, rightChunk) ==
    IF channels = 1 THEN <<[left |-> leftChunk]>>
    ELSE <<[left |-> leftChunk, right |-> rightChunk]>>
lameFlush == <<[flush |-> TRUE]>>

\* ctor: lamejs exposes Mp3Encoder; throwAt: the encodeBuffer call that
\* throws (0: none); emptyAt: the encodeBuffer call that returns an empty
\* chunk because the encoder is still buffering (0: none)
LameWorks == [ctor |-> TRUE, throwAt |-> 0, emptyAt |-> 0]
LameBehaviours ==
    {LameWorks, [ctor |-> FALSE, throwAt |-> 0, emptyAt |-> 0],
     [ctor |-> TRUE, throwAt |-> 1, emptyAt |-> 0]}

\* the locals of a call of audioBufferToMp3: submitted is the sequence of
\* encodeBuffer calls made (the frame range of each and the chunks passed),
\* encoders the encoders constructed, flushes the number of flush calls,
\* blob the returned Blob and message the message of the thrown error
Mp3Start(buffer, lame) ==
    [pc |-> "try", buffer |-> buffer, lame |-> lame,
     channels |-> Min(2, buffer.numberOfChannels),
     sampleRate |-> buffer.sampleRate, kbps |-> 128,
     encoders |-> <<>>, left |-> <<>>, right |-> Undefined, i |-> 0,
     mp3Data |-> <<>>, submitted |-> <<>>, flushes |-> 0,
     blob |-> Null, message |-> Null]

\* catch (e) { console.error("MP3 Encoding failed", e); throw e; }
\* (mp3CatchReturnsPartial: returns the Blob of the chunks pushed so far
\* instead, a faulty variant)
mp3CatchReturnsPartial(e, message) ==
    [e EXCEPT !.pc = "done",
              !.blob = Ref([type |-> "audio/mp3", parts |-> e.mp3Data])]
mp3Catch(e, message) ==
    [e EXCEPT !.pc = "thrown", !.message = Ref(message)]

\* the constructor lookup, new Mp3EncoderConstructor(channels, sampleRate,
\* kbps) and the quantization of the first one or two channels
Mp3Try(e) ==
    IF ~e.lame.ctor
    THEN mp3Catch(e, "Mp3Encoder library not loaded correctly")
    ELSE [e EXCEPT
            !.pc = "for",
            !.encoders = Append(e.encoders,
                                [channels |-> e.channels,
                                 sampleRate |-> e.sampleRate, kbps |-> e.kbps]),
            !.left = floatTo16BitPCM(e.buffer.channels[1]),
            !.right = IF e.channels > 1
                      THEN floatTo16BitPCM(e.buffer.channels[2])
                      ELSE Undefined]

\* one test of the loop for (let i = 0; i < left.length; i += sampleBlockSize)
\* and, if it passes, the loop's body
\* (Mp3ForWholeBlocks: with i + sampleBlockSize <= left.length as the test,
\* a faulty variant)
Mp3Body(e) ==
    LET leftChunk == subarray(e.left, e.i, e.i + SampleBlockSize)
        rightChunk == IF e.channels > 1
                      THEN subarray(e.right, e.i, e.i + SampleBlockSize)
                      ELSE Undefined
        call == Len(e.submitted) + 1
        mp3buf == IF e.lame.emptyAt = call THEN <<>>
                  ELSE lameEncodeBuffer(e.channels, leftChunk, rightChunk)
        made == [e EXCEPT !.submitted =
                    Append(e.submitted,
                           [from |-> e.i, to |-> e.i + Len(leftChunk),
                            chunks |-> lameEncodeBuffer(e.channels, leftChunk,
                                                        rightChunk)[1],
                            flushes |-> e.flushes])]
    IN  IF e.lame.throwAt = call
        THEN mp3Catch(made, "encodeBuffer failed")
        ELSE [made EXCEPT !.mp3Data = IF Len(mp3buf) > 0
                                      THEN Append(e.mp3Data, mp3buf)
                                      ELSE e.mp3Data,
                          !.i = e.i + SampleBlockSize]
Mp3ForWholeBlocks(e) ==
    IF e.i + SampleBlockSize <= Len(e.left) THEN Mp3Body(e)
    ELSE [e EXCEPT !.pc = "flush"]
Mp3For(e) ==
    IF e.i < Len(e.left) THEN Mp3Body(e)
    ELSE [e EXCEPT !.pc = "flush"]

\* mp3buf = mp3encoder.flush(); ...; return new Blob(mp3Data, ...)
Mp3Flush(e) ==
    LET mp3buf == lameFlush
        mp3Data == IF Len(mp3buf) > 0 THEN Append(e.mp3Data, mp3buf)
                   ELSE e.mp3Data
    IN  [e EXCEPT !.pc = "done", !.flushes = e.flushes + 1,
                  !.mp3Data = mp3Data,
                  !.blob = Ref([type |-> "audio/mp3", parts |-> mp3Data])]

Mp3Step(e) ==
    IF e.pc = "try" THEN Mp3Try(e)
    ELSE IF e.pc = "for" THEN Mp3For(e)
    ELSE Mp3Flush(e)

RECURSIVE Mp3Run(_)
Mp3Run(e) == IF e.pc \in {"done", "thrown"} THEN e ELSE Mp3Run(Mp3Step(e))

audioBufferToMp3(buffer, lame) ==
    LET e == Mp3Run(Mp3Start(buffer, lame))
    IN  IF e.pc = "thrown"
        THEN [ok |-> FALSE, message |-> e.message[1]]
        ELSE [ok |-> TRUE, blob |-> e.blob[1]]

\* the harness: buffers whose lengths lie around the multiples of the block
\* size, of one channel more than MaxChannels at most, and the encoder's
\* behaviours with a throw or an empty chunk at any call
Mp3Lengths ==
    {n \in {k * SampleBlockSize + d : k \in 0..MaxBlocks, d \in {-1, 0, 1}} :
        n >= 0}
Mp3Buffers ==
    {MkBuffer(C, N, 44100, 0) : C \in 1..(MaxChannels + 1), N \in Mp3Lengths}
Mp3Lames ==
    {[ctor |-> FALSE, throwAt |-> 0, emptyAt |-> 0]}
    \cup {[ctor |-> TRUE, throwAt |-> t, emptyAt |-> m] :
             t \in 0..(MaxBlocks + 1), m \in 0..1}

(***************************************************************************)
(* The App component.                                                      *)
(***************************************************************************)
\* a File: its name (a sequence of characters) and what decodeAudioData
\* makes of its bytes (Null: not a decodable audio container)
Files ==
    {[name |-> <<"a", ".", "m">>, audio |-> Ref(MkBuffer(2, 3, 1, 0))],
     [name |-> <<".", "w">>, audio |-> Ref(MkBuffer(1, 46, 40, 1))],
     [name |-> <<"x">>, audio |-> Null]}

\* the SegmentData the transcription collaborator may return
Boundaries ==
    {[text |-> "one", start |-> 0, end |-> 5],
     [text |-> "two", start |-> 4, end |-> 20],
     [text |-> "three", start |-> 8, end |-> 4]}

RECURSIVE SeqsUpTo(_, _)
SeqsUpTo(S, n) ==
    IF n = 0 THEN {<<>>}
    ELSE LET shorter == SeqsUpTo(S, n - 1)
         IN  shorter \cup {Append(q, x) : q \in shorter, x \in S}

BoundaryLists == SeqsUpTo(Boundaries, MaxSegments)

\* the message property of a thrown or rejected value
ErrorMessages == {Undefined, "", "failed"}

\* err.message || "An unexpected error occurred"
\* (messageOrNull: without the default, a faulty variant)
messageOrNull(message) ==
    IF message = Undefined \/ message = "" THEN NULL ELSE message
messageOrDefault(message) ==
    IF message = Undefined \/ message = ""
    THEN "An unexpected error occurred" ELSE message

FsIdle ==
    [pc |-> "idle", file |-> [name |-> <<>>, audio |-> Null],
     buffer |-> createBuffer(1, 1, 1), rawSegments |-> <<>>]

\* the loop of step 5: slice, encode to WAV, push
\* (processSegmentsUnshift: results.unshift in place of results.push, a
\* faulty variant)
RECURSIVE processSegmentsUnshift(_, _, _, _)
processSegmentsUnshift(buffer, rawSegments, i, results) ==
    IF i < Len(rawSegments)
    THEN LET seg == rawSegments[i + 1]
             slicedBuffer == sliceAudioBuffer(buffer, seg.start, seg.end)
             wavBlob == audioBufferToWav(slicedBuffer)
         IN  processSegmentsUnshift(buffer, rawSegments, i + 1,
                <<[text |-> seg.text, start |-> seg.start, end |-> seg.end,
                   id |-> <<"seg", i>>,
                   blob |-> wavBlob,
                   url |-> <<"blob:", i>>,
                   duration |-> seg.end - seg.start,
                   audioBuffer |-> slicedBuffer]>> \o results)
    ELSE results
RECURSIVE processSegments(_, _, _, _)
processSegments(buffer, rawSegments, i, results) ==
    IF i < Len(rawSegments)
    THEN LET seg == rawSegments[i + 1]
             slicedBuffer == sliceAudioBuffer(buffer, seg.start, seg.end)
             wavBlob == audioBufferToWav(slicedBuffer)
         IN  processSegments(buffer, rawSegments, i + 1,
                Append(results,
                       [text |-> seg.text, start |-> seg.start, end |-> seg.end,
                        id |-> <<"seg", i>>,
                        blob |-> wavBlob,
                        url |-> <<"blob:", i>>,
                        duration |-> seg.end - seg.start,
                        audioBuffer |-> slicedBuffer]))
    ELSE results

\* catch (err) { setErrorMsg(err.message || ...); setStatus(ERROR); }
FileSelectCatch(message) ==
    /\ errorMsg' = messageOrDefault(message)
    /\ status' = "ERROR"
    /\ fs' = [fs EXCEPT !.pc = "idle"]
    /\ UNCHANGED <<processedSegments, originalFile, audioContextRef>>

\* handleFileSelect up to its first await; UploadArea is rendered only
\* while status is IDLE or ERROR
FileSelect(file) ==
    /\ status \in {"IDLE", "ERROR"}
    /\ originalFile' = Ref(file)
    /\ errorMsg' = NULL
    /\ processedSegments' = <<>>
    /\ audioContextRef' = "ctx"
    /\ status' = "ANALYZING"
    /\ fs' = [pc |-> "decode", file |-> file, buffer |-> createBuffer(1, 1, 1),
              rawSegments |-> <<>>]
    /\ effects' = <<>>
    /\ UNCHANGED <<audioBufferRef, isZipping, zipType, batch, enc, sl, mp>>

\* const buffer = await fileToAudioBuffer(file, ctx) settles
DecodeSettles ==
    /\ fs.pc = "decode"
    /\ IF fs.file.audio = Null
       THEN /\ \E message \in ErrorMessages : FileSelectCatch(message)
            /\ UNCHANGED audioBufferRef
       ELSE /\ audioBufferRef' = fs.file.audio
            /\ fs' = [fs EXCEPT !.pc = "base64", !.buffer = fs.file.audio[1]]
            /\ UNCHANGED <<status, processedSegments, errorMsg, originalFile,
                           audioContextRef>>
    /\ effects' = <<>>
    /\ UNCHANGED <<isZipping, zipType, batch, enc, sl, mp>>

\* const base64 = await fileToBase64(file) settles
Base64Settles ==
    /\ fs.pc = "base64"
    /\ \/ /\ fs' = [fs EXCEPT !.pc = "analyze"]
          /\ UNCHANGED <<status, processedSegments, errorMsg, originalFile,
                         audioContextRef>>
       \/ FileSelectCatch(Undefined)
    /\ effects' = <<>>
    /\ UNCHANGED <<audioBufferRef, isZipping, zipType, batch, enc, sl, mp>>

\* const rawSegments = await analyzeAudioSegments(...) settles, and the rest
\* of the handler runs
AnalyzeSettles ==
    /\ fs.pc = "analyze"
    /\ \/ \E rawSegments \in BoundaryLists :
            /\ processedSegments' =
                   processSegments(fs.buffer, rawSegments, 0, <<>>)
            /\ status' = "READY"
            /\ fs' = [fs EXCEPT !.pc = "idle", !.rawSegments = rawSegments]
            /\ UNCHANGED <<errorMsg, originalFile, audioContextRef>>
       \/ \E message \in ErrorMessages : FileSelectCatch(message)
       \* an allocation inside the loop (createBuffer, ArrayBuffer,
       \* createObjectURL) throws: results, a local, is dropped
       \/ \E rawSegments \in BoundaryLists :
            /\ Len(rawSegments) > 0
            /\ FileSelectCatch("failed")
    /\ effects' = <<>>
    /\ UNCHANGED <<audioBufferRef, isZipping, zipType, batch, enc, sl, mp>>

\* the "Try Again" button: onClick={() => setStatus(AppStatus.IDLE)}
TryAgain ==
    /\ status = "ERROR"
    /\ status' = "IDLE"
    /\ effects' = <<>>
    /\ UNCHANGED <<processedSegments, errorMsg, originalFile, isZipping, zipType,
                   audioBufferRef, audioContextRef, fs, batch, enc, sl, mp>>

\* handleReset; the "Start Over" button is rendered only while status is READY
handleReset ==
    /\ status = "READY"
    /\ originalFile' = Null
    /\ processedSegments' = <<>>
    /\ status' = "IDLE"
    /\ errorMsg' = NULL
    /\ audioBufferRef' = Null
    /\ zipType' = NULL
    /\ effects' = <<>>
    /\ UNCHANGED <<isZipping, audioContextRef, fs, batch, enc, sl, mp>>

\* originalFile?.name.replace(/\.[^/.]+$/, "") || "audio"
LastDot(name) ==
    LET dots == {k \in 1..Len(name) : name[k] = "."}
    IN  IF dots = {} THEN 0 ELSE CHOOSE k \in dots : \A j \in dots : j <= k
stripExtension(name) ==
    LET p == LastDot(name)
    IN  IF p > 0 /\ p < Len(name) /\ \A k \in (p + 1)..Len(name) : name[k] # "/"
        THEN SubSeq(name, 1, p - 1) ELSE name
originalNameOf(file) ==
    IF file = Null \/ stripExtension(file[1].name) = <<>>
    THEN <<"audio">> ELSE stripExtension(file[1].name)

toUpperCase(format) == IF format = "wav" THEN "WAV" ELSE "MP3"

Formats == {"wav", "mp3"}

\* the callback's closure (format, segments, originalFile) and locals (zip,
\* hasError, index); encodes counts its calls of audioBufferToMp3
BatchIdle ==
    [pc |-> "idle", format |-> "wav", segments |-> <<>>, originalFile |-> Null,
     zip |-> <<>>, hasError |-> FALSE, index |-> 0, encodes |-> 0]

\* the callback has returned: its closure and its archive are released, and
\* what remains is how far it got
batchEnded(b) ==
    [BatchIdle EXCEPT !.hasError = b.hasError, !.index = b.index,
                      !.encodes = b.encodes]

\* zip.file(`sentence-${index + 1}.${extension}`, blob)
\* (zipFileZeroBased: named by index, a faulty variant)
zipFileZeroBased(zip, index, extension, blob) ==
    Append(zip, [name |-> <<"sentence-", index, ".", extension>>,
                 blob |-> blob])
zipFile(zip, index, extension, blob) ==
    Append(zip, [name |-> <<"sentence-", index + 1, ".", extension>>,
                 blob |-> blob])

\* the for loop from batch.index on, up to its next await: the 10 ms timer
\* before an MP3 encode (pc "yield"), or zip.generateAsync after the loop
\* (pc "generate")
RECURSIVE batchLoop(_)
batchLoop(b) ==
    IF b.index < Len(b.segments)
    THEN IF b.format = "mp3"
         THEN [b EXCEPT !.pc = "yield"]
         ELSE batchLoop([b EXCEPT
                  !.zip = zipFile(b.zip, b.index, "wav",
                                  b.segments[b.index + 1].blob),
                  !.index = b.index + 1])
    ELSE IF ~b.hasError THEN [b EXCEPT !.pc = "generate"]
         ELSE batchEnded(b)               \* if (!hasError) skipped: finally

\* handleDownloadAll up to setTimeout(..., 100); the batch buttons are
\* rendered only while status is READY and are disabled while isZipping.
\* The closure keeps the processedSegments and originalFile of this render.
\* (handleDownloadAllNoTimer: the loop is entered in the click handler
\* itself, without setTimeout, a faulty variant)
handleDownloadAllNoTimer(format) ==
    /\ status = "READY"
    /\ ~isZipping
    /\ IF Len(processedSegments) = 0
       THEN UNCHANGED <<isZipping, zipType, batch>>
       ELSE /\ isZipping' = TRUE
            /\ zipType' = format
            /\ batch' = batchLoop([BatchIdle EXCEPT
                                     !.format = format,
                                     !.segments = processedSegments,
                                     !.originalFile = originalFile])
    /\ effects' = <<>>
    /\ UNCHANGED <<status, processedSegments, errorMsg, originalFile,
                   audioBufferRef, audioContextRef, fs, enc, sl, mp>>
handleDownloadAll(format) ==
    /\ status = "READY"
    /\ ~isZipping
    /\ IF Len(processedSegments) = 0
       THEN UNCHANGED <<isZipping, zipType, batch>>
       ELSE /\ isZipping' = TRUE
            /\ zipType' = format
            /\ batch' = [BatchIdle EXCEPT !.pc = "timer", !.format = format,
                                          !.segments = processedSegments,
                                          !.originalFile = originalFile]
    /\ effects' = <<>>
    /\ UNCHANGED <<status, processedSegments, errorMsg, originalFile,
                   audioBufferRef, audioContextRef, fs, enc, sl, mp>>

\* the state updates that follow batchLoop: none at an await, the finally
\* block when the callback has run to its end
AfterLoop(b) ==
    IF b.pc = "idle" THEN isZipping' = FALSE /\ zipType' = NULL
    ELSE UNCHANGED <<isZipping, zipType>>

\* finally { setIsZipping(false); setZipType(null); }
BatchFinally ==
    /\ isZipping' = FALSE
    /\ zipType' = NULL

\* the outer catch: alert(`Failed to create ${FORMAT} zip file. Error: ...`)
batchAlert(format, message) ==
    [kind |-> "alert",
     text |-> <<"Failed to create ", toUpperCase(format), " zip file. Error: ">>
                \o message,
     content |-> <<>>]

\* the blob of zip.generateAsync is downloaded: a.download =
\* `${originalName}-sentences-${format}.zip`; a.click()
batchDownload(file, format, zip) ==
    [kind |-> "download",
     text |-> <<originalNameOf(file), "-sentences-", format, ".zip">>,
     content |-> zip]

\* the callback of setTimeout(..., 100) starts
BatchTimerFires ==
    /\ batch.pc = "timer"
    /\ batch' = batchLoop([batch EXCEPT !.zip = <<>>, !.hasError = FALSE,
                                         !.index = 0])
    /\ AfterLoop(batch')
    /\ effects' = <<>>
    /\ UNCHANGED <<status, processedSegments, errorMsg, originalFile,
                   audioBufferRef, audioContextRef, fs, enc, sl, mp>>

\* the inner catch of the MP3 conversion: hasError = true, then
\* throw new Error(`Failed to convert segment ${index + 1} to MP3.`), which
\* the outer catch alerts and the finally block follows
\* (Mp3FailureSkips: without the throw, so that the loop goes on to the next
\* segment, a faulty variant)
Mp3FailureSkips(b) ==
    /\ batch' = batchLoop([b EXCEPT !.hasError = TRUE, !.index = b.index + 1])
    /\ AfterLoop(batch')
    /\ effects' = <<>>
Mp3Failure(b) ==
    /\ batch' = batchEnded([b EXCEPT !.hasError = TRUE])
    /\ effects' = <<batchAlert(b.format,
                       <<"Failed to convert segment ", b.index + 1, " to MP3.">>)>>
    /\ BatchFinally

\* the 10 ms timer fires: segment batch.index is converted, and the loop
\* goes on to its next await
BatchMp3Encode ==
    /\ batch.pc = "yield"
    /\ \E lame \in LameBehaviours :
         LET segment == batch.segments[batch.index + 1]
             result == audioBufferToMp3(segment.audioBuffer, lame)
             tried == [batch EXCEPT !.encodes = batch.encodes + 1]
         IN  IF result.ok
             THEN /\ batch' = batchLoop([tried EXCEPT
                               !.zip = zipFile(batch.zip, batch.index, "mp3",
                                               result.blob),
                               !.index = batch.index + 1])
                  /\ AfterLoop(batch')
                  /\ effects' = <<>>
             ELSE Mp3Failure(tried)
    /\ UNCHANGED <<status, processedSegments, errorMsg, originalFile,
                   audioBufferRef, audioContextRef, fs, enc, sl, mp>>

\* await zip.generateAsync({ type: "blob" }) settles: the download is
\* triggered, or the outer catch alerts; then the finally block
BatchGenerateSettles ==
    /\ batch.pc = "generate"
    /\ \/ effects' = <<batchDownload(batch.originalFile, batch.format, batch.zip)>>
       \/ \E message \in ErrorMessages \ {Undefined} :
            effects' = <<batchAlert(batch.format, <<message>>)>>
    /\ batch' = batchEnded(batch)
    /\ BatchFinally
    /\ UNCHANGED <<status, processedSegments, errorMsg, originalFile,
                   audioBufferRef, audioContextRef, fs, enc, sl, mp>>

(***************************************************************************)
(* Specifications.                                                         *)
(***************************************************************************)
InitApp ==
    /\ status = "IDLE"
    /\ processedSegments = <<>>
    /\ errorMsg = NULL
    /\ originalFile = Null
    /\ isZipping = FALSE
    /\ zipType = NULL
    /\ audioBufferRef = Null
    /\ audioContextRef = NULL
    /\ fs = FsIdle
    /\ batch = BatchIdle
    /\ effects = <<>>

\* the App component under the events of its user and of its collaborators
Init == InitApp /\ enc = NoEnc /\ sl = NoSlice /\ mp = NoMp3

Next ==
    \/ \E file \in Files : FileSelect(file)
    \/ DecodeSettles
    \/ Base64Settles
    \/ AnalyzeSettles
    \/ TryAgain
    \/ handleReset
    \/ \E format \in Formats : handleDownloadAll(format)
    \/ BatchTimerFires
    \/ BatchMp3Encode
    \/ BatchGenerateSettles

Spec == Init /\ [][Next]_vars

\* audioBufferToWav on every buffer of WavBuffers, one step of the function
\* at a time
InitWav ==
    /\ InitApp
    /\ sl = NoSlice
    /\ mp = NoMp3
    /\ enc \in {WavStart(b) : b \in WavBuffers}

EncHeader ==
    /\ enc.pc = "header"
    /\ enc' = WavHeader(enc)
    /\ UNCHANGED <<sl, mp, appVars>>

EncWhile ==
    /\ enc.pc = "while"
    /\ enc' = WavWhile(enc)
    /\ UNCHANGED <<sl, mp, appVars>>

EncFor ==
    /\ enc.pc = "for"
    /\ enc' = WavFor(enc)
    /\ UNCHANGED <<sl, mp, appVars>>

NextWav == EncHeader \/ EncWhile \/ EncFor

SpecWav == InitWav /\ [][NextWav]_vars

\* sliceAudioBuffer on every buffer of SliceBuffers and every pair of times
InitSlice ==
    /\ InitApp
    /\ enc = NoEnc
    /\ mp = NoMp3
    /\ \E b \in SliceBuffers, s \in SliceTimes, e \in SliceTimes :
         sl = [pc |-> "call", buffer |-> b, startSeconds |-> s,
               endSeconds |-> e, result |-> Null]

SliceCall ==
    /\ sl.pc = "call"
    /\ sl' = [sl EXCEPT !.pc = "done",
                        !.result = Ref(sliceAudioBuffer(sl.buffer, sl.startSeconds,
                                                        sl.endSeconds))]
    /\ UNCHANGED <<enc, mp, appVars>>

NextSlice == SliceCall

SpecSlice == InitSlice /\ [][NextSlice]_vars

\* audioBufferToMp3 on every buffer of Mp3Buffers under every behaviour of
\* Mp3Lames, one step of the function at a time
InitMp3 ==
    /\ InitApp
    /\ enc = NoEnc
    /\ sl = NoSlice
    /\ mp \in {Mp3Start(b, l) : b \in Mp3Buffers, l \in Mp3Lames}

MpTry ==
    /\ mp.pc = "try"
    /\ mp' = Mp3Try(mp)
    /\ UNCHANGED <<enc, sl, appVars>>

MpFor ==
    /\ mp.pc = "for"
    /\ mp' = Mp3For(mp)
    /\ UNCHANGED <<enc, sl, appVars>>

MpFlush ==
    /\ mp.pc = "flush"
    /\ mp' = Mp3Flush(mp)
    /\ UNCHANGED <<enc, sl, appVars>>

NextMp3 == MpTry \/ MpFor \/ MpFlush

SpecMp3 == InitMp3 /\ [][NextMp3]_vars

TypeOK ==
    /\ status \in {"IDLE", "UPLOADING", "ANALYZING", "PROCESSING", "READY", "ERROR"}
    /\ isZipping \in BOOLEAN
    /\ zipType \in Formats \cup {NULL}
    /\ fs.pc \in {"idle", "decode", "base64", "analyze"}
    /\ batch.pc \in {"idle", "timer", "yield", "generate"}
    /\ Len(processedSegments) <= MaxSegments
    /\ (status \in {"IDLE", "ERROR", "READY"}) = (fs.pc = "idle")

(***************************************************************************)
(* Reading a byte stream back.                                             *)
(***************************************************************************)
U16At(view, off) == view[off + 1] + 256 * view[off + 2]
S16At(view, off) ==
    IF U16At(view, off) >= 32768 THEN U16At(view, off) - 65536
    ELSE U16At(view, off)
U32At(view, off) ==
    view[off + 1] + 256 * view[off + 2] + 65536 * view[off + 3]
        + 16777216 * view[off + 4]
BytesAt(view, off, n) == [k \in 1..n |-> view[off + k]]

Clamp(x, lo, hi) == Max(lo, Min(hi, x))
\* Math.round(a/b) for b > 0: halves go up
Round(a, b) == Floor(2 * a + b, 2 * b)

(***************************************************************************)
(* Claims about audioBufferToWav, under SpecWav.                           *)
(***************************************************************************)

\* C1: when audioBufferToWav returns, the data sub-chunk holds, for every
\* frame k < N and every channel c, the quantized value of channels[c][k] at
\* byte offset 44 + (k*C + c)*2 as a little-endian signed 16-bit integer.
C1_EveryFrameWritten ==
    enc.pc = "done" =>
        \A k \in 0..(enc.buffer.length - 1), c \in 0..(enc.numOfChan - 1) :
            S16At(enc.view, 44 + (k * enc.numOfChan + c) * 2)
                = WavQuantize(enc.buffer.channels[c + 1][k + 1])

\* the quantizer as the specification states it: clamp to [-1, 1], times
\* 32768 if negative and times 32767 otherwise, integer part
StatedQuantize(x) ==
    LET s == Max(-SampleDen, Min(SampleDen, x))
    IN  IF s < 0 THEN Trunc(s * 32768, SampleDen) ELSE Trunc(s * 32767, SampleDen)

\* C5: every value the WAV encoder writes is the input sample clamped to
\* [-1, 1], times 32768 if negative and times 32767 otherwise, truncated
\* toward zero, and lies in [-32768, 32767].  After a pass of the inner loop
\* the pass has quantized channels[i - 1][pos] into sample and written it at
\* 44 + offset - 2.
C5_StatedQuantizer ==
    (enc.pc = "for" /\ enc.i >= 1) =>
        /\ enc.sample = StatedQuantize(enc.channels[enc.i][enc.pos + 1])
        /\ S16At(enc.view, 44 + enc.offset - 2) = enc.sample
        /\ enc.sample \in (-32768)..32767

\* C6: audioBufferToWav returns 44 + N*C*2 bytes whose header is "RIFF",
\* length - 8, "WAVE", "fmt ", 16, format tag 1, C, R, byte rate R*2*C, block
\* align 2*C, 16 bits per sample, "data", N*C*2, all little-endian; for C = 2,
\* R = 44100, N = 100 that is 444 bytes, byte rate 176400, block align 4.
C6_WavHeader ==
    enc.pc = "done" =>
        LET C == enc.buffer.numberOfChannels
            N == enc.buffer.length
            R == enc.buffer.sampleRate
            v == enc.view
        IN  /\ Len(v) = 44 + N * C * 2
            /\ BytesAt(v, 0, 4) = <<82, 73, 70, 70>>
            /\ U32At(v, 4) = Len(v) - 8
            /\ BytesAt(v, 8, 4) = <<87, 65, 86, 69>>
            /\ BytesAt(v, 12, 4) = <<102, 109, 116, 32>>
            /\ U32At(v, 16) = 16
            /\ U16At(v, 20) = 1
            /\ U16At(v, 22) = C
            /\ U32At(v, 24) = R
            /\ U32At(v, 28) = R * 2 * C
            /\ U16At(v, 32) = 2 * C
            /\ U16At(v, 34) = 16
            /\ BytesAt(v, 36, 4) = <<100, 97, 116, 97>>
            /\ U32At(v, 40) = N * C * 2
            /\ (C = 2 /\ R = 44100 /\ N = 100) =>
                  (Len(v) = 444 /\ U32At(v, 28) = 176400 /\ U16At(v, 32) = 4)

\* the encoder has returned for the two-channel, 44100 Hz, 100-frame buffer
C6_Witness ==
    /\ enc.pc = "done"
    /\ enc.buffer = ExampleBuffer
    /\ Len(enc.view) = 444
    /\ U32At(enc.view, 28) = 176400

(***************************************************************************)
(* Claims about sliceAudioBuffer, under SpecSlice.                         *)
(***************************************************************************)

\* C2: for N >= 1 frames at rate R and 0 <= start < end <= N/R, the slice
\* has ceil(end*R) - floor(start*R) frames, clamped to [1, N].
C2_SliceFrameCount ==
    (/\ sl.pc = "done"
     /\ sl.buffer.length >= 1
     /\ 0 <= sl.startSeconds
     /\ sl.startSeconds < sl.endSeconds
     /\ sl.endSeconds * sl.buffer.sampleRate <= sl.buffer.length * TimeDen) =>
        sl.result[1].length =
            Clamp(Ceil(sl.endSeconds * sl.buffer.sampleRate, TimeDen)
                    - Floor(sl.startSeconds * sl.buffer.sampleRate, TimeDen),
                  1, sl.buffer.length)

\* a slice inside the buffer whose two ends fall between frames
C2_Witness ==
    /\ sl.pc = "done"
    /\ 0 < sl.startSeconds
    /\ sl.startSeconds < sl.endSeconds
    /\ sl.endSeconds * sl.buffer.sampleRate < sl.buffer.length * TimeDen
    /\ (sl.startSeconds * sl.buffer.sampleRate) % TimeDen # 0
    /\ (sl.endSeconds * sl.buffer.sampleRate) % TimeDen # 0
    /\ sl.result[1].length = 3

Silent(b) ==
    \A c \in 1..b.numberOfChannels : \A k \in 1..b.length : b.channels[c][k] = 0

OneSilentFrame(b, source) ==
    /\ b.length = 1
    /\ Silent(b)
    /\ b.numberOfChannels = source.numberOfChannels
    /\ b.sampleRate = source.sampleRate

\* the range lies entirely outside the buffer: it ends at or before time 0,
\* or starts at or after the buffer's end
OutsideBuffer(b, start, end) ==
    end <= 0 \/ start * b.sampleRate >= b.length * TimeDen

ComputedFrameCount(b, start, end) ==
    Min(b.length, Ceil(end * b.sampleRate, TimeDen))
        - Max(0, Floor(start * b.sampleRate, TimeDen))

\* C4 as stated: for start >= end, or a range entirely outside the buffer,
\* the slice is exactly 1 frame of silence per channel with the source's
\* channel count and sample rate.
C4_DegenerateAsStated ==
    (/\ sl.pc = "done"
     /\ \/ sl.startSeconds >= sl.endSeconds
        \/ OutsideBuffer(sl.buffer, sl.startSeconds, sl.endSeconds)) =>
        OneSilentFrame(sl.result[1], sl.buffer)

\* C4 as amended: whenever the computed endFrame - startFrame is <= 0, which
\* covers every range entirely outside the buffer and start = end = 5.0 s,
\* the slice is 1 frame of silence per channel with the source's channel
\* count and rate; every range with start >= end gives exactly 1 frame with
\* the source's channel count and rate.
C4_Degenerate ==
    sl.pc = "done" =>
        /\ ComputedFrameCount(sl.buffer, sl.startSeconds, sl.endSeconds) <= 0
              => OneSilentFrame(sl.result[1], sl.buffer)
        /\ OutsideBuffer(sl.buffer, sl.startSeconds, sl.endSeconds)
              => OneSilentFrame(sl.result[1], sl.buffer)
        /\ (sl.startSeconds = 5 * TimeDen /\ sl.endSeconds = 5 * TimeDen)
              => OneSilentFrame(sl.result[1], sl.buffer)
        /\ sl.startSeconds >= sl.endSeconds
              => /\ sl.result[1].length = 1
                 /\ sl.result[1].numberOfChannels = sl.buffer.numberOfChannels
                 /\ sl.result[1].sampleRate = sl.buffer.sampleRate

\* slice(buffer, 5.0, 5.0) has returned, on a buffer whose frames are not
\* silent
C4_Witness ==
    /\ sl.pc = "done"
    /\ sl.startSeconds = 5 * TimeDen
    /\ sl.endSeconds = 5 * TimeDen
    /\ ~Silent(sl.buffer)
    /\ sl.result[1].length = 1
    /\ Silent(sl.result[1])

(***************************************************************************)
(* Claims about the App component, under Spec.                             *)
(***************************************************************************)

\* C3 as stated: every segment the pipeline produces for a boundary
\* (start, end) of a source of N frames at rate R has
\* round(end*R) - floor(start*R) frames clamped to [1, N], never zero and
\* never more than N.
C3_RoundedFrameCount ==
    status = "READY" =>
        \A i \in 1..Len(processedSegments) :
            LET seg == processedSegments[i]
                N == audioBufferRef[1].length
                R == audioBufferRef[1].sampleRate
            IN  seg.audioBuffer.length =
                    Clamp(Round(seg.end * R, TimeDen) - Floor(seg.start * R, TimeDen),
                          1, N)

\* C3 as amended: every segment has min(N, ceil(end*R)) - max(0, floor(start*R))
\* frames, or 1 frame when that difference is <= 0; it is never zero and
\* never more than N.
C3_SegmentFrameCount ==
    status = "READY" =>
        \A i \in 1..Len(processedSegments) :
            LET seg == processedSegments[i]
                N == audioBufferRef[1].length
                d == ComputedFrameCount(audioBufferRef[1], seg.start, seg.end)
            IN  /\ seg.audioBuffer.length = (IF d <= 0 THEN 1 ELSE d)
                /\ seg.audioBuffer.length >= 1
                /\ seg.audioBuffer.length <= N

\* two segments are ready: one whose end falls in the first half of a frame
\* (ceil and round differ), one with a degenerate range
C3_Witness ==
    /\ status = "READY"
    /\ Len(processedSegments) = 2
    /\ LET seg == processedSegments[1]
           R == audioBufferRef[1].sampleRate
       IN  /\ Ceil(seg.end * R, TimeDen) # Round(seg.end * R, TimeDen)
           /\ seg.audioBuffer.length = 2
    /\ LET seg == processedSegments[2]
       IN  /\ ComputedFrameCount(audioBufferRef[1], seg.start, seg.end) < 0
           /\ seg.audioBuffer.length = 1

\* C7: when the MP3 encoding of a segment fails in a batch (hasError is
\* set), the batch stops at once: the failing encode is the last one made,
\* the archive, which holds only the segments before it, is neither generated
\* nor downloaded, and the step raises exactly one alert and nothing else,
\* naming the failing segment (1-based, as the file names do); nothing more
\* is raised for that batch afterwards.
C7_BatchAbortsOnFailure ==
    /\ [](batch.hasError =>
            /\ batch.pc = "idle"
            /\ batch.encodes = batch.index + 1
            /\ ~isZipping)
    /\ [][(~batch.hasError /\ batch'.hasError) =>
            /\ batch.pc = "yield"
            /\ batch.format = "mp3"
            /\ batch'.index = batch.index
            /\ Len(batch.zip) = batch.index
            /\ effects' = <<[kind |-> "alert",
                             text |-> <<"Failed to create ", "MP3",
                                        " zip file. Error: ",
                                        "Failed to convert segment ",
                                        batch.index + 1, " to MP3.">>,
                             content |-> <<>>]>>]_vars
    /\ [][(batch.hasError /\ batch'.hasError) => effects' = <<>>]_vars

\* the second of two segments has just failed to encode, after the first was
\* encoded: one alert, no download
C7_Witness ==
    /\ batch.hasError
    /\ batch.pc = "idle"
    /\ batch.index = 1
    /\ batch.encodes = 2
    /\ Len(effects) = 1
    /\ effects[1].kind = "alert"

\* C8: when handleFileSelect succeeds on n boundaries, the segment list has
\* n entries and entry i carries the text, start and end of boundary i and
\* the WAV encoding of the slice of the source buffer for boundary i.
C8_SegmentsFollowBoundaries ==
    status = "READY" =>
        /\ Len(processedSegments) = Len(fs.rawSegments)
        /\ \A i \in 1..Len(fs.rawSegments) :
              LET raw == fs.rawSegments[i]
                  seg == processedSegments[i]
              IN  /\ seg.text = raw.text
                  /\ seg.start = raw.start
                  /\ seg.end = raw.end
                  /\ seg.blob = audioBufferToWav(
                         sliceAudioBuffer(audioBufferRef[1], raw.start, raw.end))

\* two different boundaries were processed, in the order given
C8_Witness ==
    /\ status = "READY"
    /\ Len(fs.rawSegments) = 2
    /\ fs.rawSegments[1].text = "two"
    /\ fs.rawSegments[2].text = "one"
    /\ processedSegments[1].text = "two"
    /\ processedSegments[1].blob # processedSegments[2].blob

\* C9: every run of handleFileSelect ends either in READY with one segment
\* per boundary returned, or in ERROR with a message set and no segment;
\* while a run is under way and after a failure the segment list is empty,
\* and an undecodable file never gives READY.
C9_RunOutcome ==
    /\ [](fs.pc # "idle" => processedSegments = <<>>)
    /\ [](status = "ERROR" => (errorMsg # NULL /\ processedSegments = <<>>))
    /\ [](status = "READY" =>
            /\ Len(processedSegments) = Len(fs.rawSegments)
            /\ fs.file.audio # Null
            /\ audioBufferRef = fs.file.audio)
    /\ [][(fs.pc # "idle" /\ fs'.pc = "idle") =>
            /\ status' \in {"READY", "ERROR"}
            /\ status' = "READY" => Len(processedSegments') = Len(fs'.rawSegments)
            /\ status' = "ERROR" => (errorMsg' # NULL /\ processedSegments' = <<>>)
         ]_vars

\* the transcription call failed without a message after a successful decode
C9_Witness ==
    /\ status = "ERROR"
    /\ fs.pc = "idle"
    /\ audioBufferRef # Null
    /\ errorMsg = "An unexpected error occurred"
    /\ processedSegments = <<>>

\* C10: once handleReset has run while a batch is in progress (isZipping is
\* still set and zipType has been cleared), the batch produces no archive
\* (it does not go on to zip.generateAsync) and downloads none.
C10_ResetCancelsBatch ==
    [][(isZipping /\ zipType = NULL) =>
          /\ \A k \in 1..Len(effects') : effects'[k].kind # "download"
          /\ batch'.pc = "generate" => batch.pc = "generate"]_vars

\* C16: the WAV encoder and the MP3 encoder quantize alike: the 16-bit
\* integer a pass of audioBufferToWav's inner loop writes for the sample
\* channels[i - 1][pos] is the one floatTo16BitPCM puts at index pos of the
\* Int16Array it makes of that channel for the MP3 encoder.
C16_SameQuantizer ==
    (enc.pc = "for" /\ enc.i >= 1) =>
        S16At(enc.view, 44 + enc.offset - 2)
            = floatTo16BitPCM(enc.channels[enc.i])[enc.pos + 1]

\* C14: for a range that is not degenerate (startFrame < endFrame, where
\* startFrame = max(0, floor(start*R)) and endFrame = min(N, ceil(end*R))),
\* sliceAudioBuffer returns a buffer of the source's sample rate and channel
\* count whose sample i of every channel c is the source's sample
\* startFrame + i of channel c, for all 0 <= i < endFrame - startFrame; the
\* call leaves the source buffer as it was.
C14_SliceCopiesVerbatim ==
    /\ [](sl.pc = "done" =>
            LET src == sl.buffer
                R == src.sampleRate
                startFrame == Max(0, Floor(sl.startSeconds * R, TimeDen))
                endFrame == Min(src.length, Ceil(sl.endSeconds * R, TimeDen))
                out == sl.result[1]
            IN  startFrame < endFrame =>
                  /\ out.sampleRate = R
                  /\ out.numberOfChannels = src.numberOfChannels
                  /\ Len(out.channels) = src.numberOfChannels
                  /\ \A c \in 1..src.numberOfChannels :
                        /\ Len(out.channels[c]) = endFrame - startFrame
                        /\ \A i \in 0..(endFrame - startFrame - 1) :
                              out.channels[c][i + 1]
                                  = src.channels[c][startFrame + i + 1])
    /\ [][sl'.buffer = sl.buffer]_vars

\* a stereo slice of two frames that starts after the source's first frame
\* and differs from the source's first two frames
C14_Witness ==
    /\ sl.pc = "done"
    /\ sl.buffer.numberOfChannels = 2
    /\ sliceStartOffset(sl.buffer, sl.startSeconds) = 1
    /\ sl.result[1].length = 2
    /\ sl.result[1].channels[1] = SubSeq(sl.buffer.channels[1], 2, 3)
    /\ sl.result[1].channels[1] # SubSeq(sl.buffer.channels[1], 1, 2)

\* C11: a batch yields to the scheduler once before it processes its first
\* segment (it starts suspended on its 100 ms timer, with nothing archived
\* or encoded), and an MP3 batch once before each encode: it is suspended
\* on its 10 ms timer before segment index with every earlier segment
\* encoded and archived, a step makes at most one encode and only out of
\* that suspension, so that no encode of segment i+1 starts without a yield
\* after the encode of segment i; a WAV batch has no such suspension.
C11_YieldsBeforeWork ==
    /\ [](batch.pc = "timer" =>
            (batch.zip = <<>> /\ batch.index = 0 /\ batch.encodes = 0))
    /\ [](batch.pc = "yield" =>
            /\ batch.format = "mp3"
            /\ batch.index < Len(batch.segments)
            /\ batch.encodes = batch.index
            /\ Len(batch.zip) = batch.index)
    /\ [][(batch.pc = "idle" /\ batch'.pc # "idle") => batch'.pc = "timer"]_vars
    /\ [][(batch.pc = "timer" /\ batch'.pc # "timer") =>
            /\ batch'.encodes = 0
            /\ batch.format = "mp3" => (batch'.pc = "yield" /\ batch'.zip = <<>>)
            /\ batch.format = "wav" =>
                   (batch'.pc = "generate"
                      /\ Len(batch'.zip) = Len(batch.segments))]_vars
    /\ [][(batch.pc # "idle" /\ batch'.encodes # batch.encodes) =>
            /\ batch.pc = "yield"
            /\ batch'.encodes = batch.encodes + 1
            /\ batch'.pc \in {"yield", "generate", "idle"}
            /\ batch'.pc = "yield" => batch'.index = batch.index + 1]_vars

\* an MP3 batch of two segments is suspended before its second encode, the
\* first segment encoded and archived
C11_Witness ==
    /\ batch.pc = "yield"
    /\ batch.format = "mp3"
    /\ Len(batch.segments) = 2
    /\ batch.index = 1
    /\ batch.encodes = 1
    /\ Len(batch.zip) = 1

\* C13: when a batch of n segments in format f succeeds (its archive is
\* downloaded), the archive holds exactly n entries in the order of the
\* segments, the i-th (1-based) named sentence-{i}.{f} and holding the
\* encoding in format f of the i-th segment: the WAV blob made of its slice
\* when the segment was processed, or the MP3 stream of its slice.
C13_ArchiveEntries ==
    [][(batch.pc = "generate" /\ Len(effects') = 1
          /\ effects'[1].kind = "download") =>
          LET segs == batch.segments
              f == batch.format
              zip == effects'[1].content
          IN  /\ Len(zip) = Len(segs)
              /\ f \in {"wav", "mp3"}
              /\ \A i \in 1..Len(segs) :
                    /\ zip[i].name = <<"sentence-", i, ".", f>>
                    /\ f = "wav" =>
                          /\ zip[i].blob = segs[i].blob
                          /\ zip[i].blob = audioBufferToWav(segs[i].audioBuffer)
                    /\ f = "mp3" =>
                          zip[i].blob
                            = audioBufferToMp3(segs[i].audioBuffer, LameWorks).blob]_vars

\* the MP3 archive of two segments has just been downloaded
C13_Witness ==
    /\ Len(effects) = 1
    /\ effects[1].kind = "download"
    /\ Len(effects[1].content) = 2
    /\ effects[1].content[1].name = <<"sentence-", 1, ".", "mp3">>
    /\ effects[1].content[2].name = <<"sentence-", 2, ".", "mp3">>
    /\ effects[1].content[2].blob.type = "audio/mp3"

\* the encoder has failed in this call: Mp3Encoder was not found, or one of
\* the encodeBuffer calls made is the one that throws
Mp3Failed ==
    \/ mp.pc # "try" /\ ~mp.lame.ctor
    \/ mp.lame.throwAt \in 1..Len(mp.submitted)

\* C12: once the MP3 encoder could not be constructed or the encoding of a
\* block has thrown, audioBufferToMp3 ends by throwing that error to its
\* caller: it makes no further call of the encoder and returns no Blob,
\* whatever chunks were pushed before the failure.
C12_Mp3AllOrNothing ==
    /\ [](Mp3Failed =>
            /\ mp.pc = "thrown"
            /\ mp.blob = Null
            /\ mp.flushes = 0
            /\ mp.message = Ref(IF mp.lame.ctor THEN "encodeBuffer failed"
                                ELSE "Mp3Encoder library not loaded correctly")
            /\ LET r == audioBufferToMp3(mp.buffer, mp.lame)
               IN  /\ ~r.ok
                   /\ DOMAIN r = {"ok", "message"}
                   /\ r.message = mp.message[1])
    /\ [](mp.pc = "thrown" => Mp3Failed)
    /\ [][mp.pc = "thrown" => mp' = mp]_vars

\* the second encodeBuffer call has thrown after the first returned a chunk
C12_Witness ==
    /\ mp.pc = "thrown"
    /\ mp.lame.throwAt = 2
    /\ Len(mp.submitted) = 2
    /\ Len(mp.mp3Data) = 1
    /\ mp.blob = Null

\* the k-th block (1-based) of a buffer: frames [(k-1)*1152, min(k*1152, N))
\* of its first min(2, channels) channels, quantized
Mp3Block(buffer, k) ==
    LET from == (k - 1) * 1152
        to == Min(k * 1152, buffer.length)
        chunk(c) == [j \in 1..(to - from) |->
                       pcmSample(buffer.channels[c][from + j])]
    IN  [from |-> from, to |-> to,
         chunks |-> IF buffer.numberOfChannels = 1
                    THEN [left |-> chunk(1)]
                    ELSE [left |-> chunk(1), right |-> chunk(2)],
         flushes |-> 0]

\* C15: audioBufferToMp3 constructs one encoder of its own, for
\* min(2, channels) channels, and submits to it the blocks [0, 1152),
\* [1152, 2304), ... in increasing order: at any time the calls made are the
\* first blocks of the buffer, left and right of the same frames, none after
\* a flush; when the function returns it has submitted every block, the
\* last, shorter one included, has flushed exactly once, after the last
\* block, and returns the non-empty chunks the block calls returned, in call
\* order, followed by the chunk of the flush.
C15_Mp3Blocks ==
    /\ [](\A k \in 1..Len(mp.submitted) :
             /\ mp.submitted[k] = Mp3Block(mp.buffer, k)
             /\ mp.submitted[k].from < mp.buffer.length)
    /\ [](mp.pc \in {"for", "flush", "done"} =>
            mp.encoders = <<[channels |-> Min(2, mp.buffer.numberOfChannels),
                             sampleRate |-> mp.buffer.sampleRate,
                             kbps |-> 128]>>)
    /\ [](mp.pc = "done" =>
            LET N == mp.buffer.length
                blocks == (N + 1151) \div 1152
                empty == IF mp.lame.emptyAt \in 1..blocks THEN 1 ELSE 0
                parts == mp.blob[1].parts
            IN  /\ Len(mp.submitted) = blocks
                /\ blocks > 0 => mp.submitted[blocks].to = N
                /\ mp.flushes = 1
                /\ mp.blob[1].type = "audio/mp3"
                /\ Len(parts) = blocks - empty + 1
                /\ parts[Len(parts)] = <<[flush |-> TRUE]>>
                /\ \A k \in 1..blocks :
                      k # mp.lame.emptyAt =>
                        parts[IF empty = 1 /\ mp.lame.emptyAt < k
                              THEN k - 1 ELSE k] = <<mp.submitted[k].chunks>>)
    /\ [][mp'.flushes # mp.flushes =>
            /\ mp.i >= mp.buffer.length
            /\ mp'.flushes = 1
            /\ mp'.pc = "done"
            /\ mp'.submitted = mp.submitted]_vars

\* a buffer of three channels and 2 * 1152 + 1 frames has been encoded in
\* three blocks, the last of one frame, the encoder returning nothing for
\* the first
C15_Witness ==
    /\ mp.pc = "done"
    /\ mp.buffer.numberOfChannels = 3
    /\ mp.buffer.length = 2 * 1152 + 1
    /\ Len(mp.submitted) = 3
    /\ mp.submitted[2].to - mp.submitted[2].from = 1152
    /\ mp.submitted[3].to - mp.submitted[3].from = 1
    /\ DOMAIN mp.submitted[3].chunks = {"left", "right"}
    /\ mp.lame.emptyAt = 1
    /\ Len(mp.blob[1].parts) = 3

====
